---- MODULE Spec2Model ----
(***************************************************************************)
(* Setting Sun sliding-block puzzle (doxman/setting-sun).                  *)
(*                                                                         *)
(* The model follows app/src/piece.ts (the four piece classes and their    *)
(* helpers) and app/src/App.tsx (the board held in React state, the move   *)
(* validator canMoveWithOthers, the handlers onMove, select and reset).    *)
(***************************************************************************)
EXTENDS Integers, FiniteSets, Sequences, TLC

VARIABLES
  pieces,    \* React state `pieces`: map from piece ID to Piece
  selected,  \* React state `selected`: a piece ID, or -1 for none
  alerts,    \* number of window.alert("You win!!") calls made so far
  lastOp,    \* the handler that ran last: "init", "select", "move", "reset"
  moves,     \* number of onMove calls made so far
  thrown,    \* message of the Error the last call threw, "" if it returned
  won,       \* a win was signalled since the board was last (re)initialised
  rendered   \* the `pieces` and `selected` of the last render, which the
             \* closures canMoveWithOthers, onMove and findPiece read

vars == <<pieces, selected, alerts, lastOp, moves, thrown, won, rendered>>

\* Bound on the number of arrow clicks explored by Spec.
MaxMoves == 5

\* Bound on the number of direct onMove calls explored by DriverSpec.
MaxCalls == 2

\* Bound on the number of arrow clicks explored by StaleSpec.
MaxHandled == 2

(***************************************************************************)
(* piece.ts                                                                *)
(***************************************************************************)
GRID_WIDTH == 4
GRID_HEIGHT == 5

MoveDirection == {"up", "down", "left", "right"}

\* movePosition with the result of "up" copied into the case "down".
movePosition_DownCopiesUp(position, direction) ==
  CASE direction = "up"    -> [x |-> position.x, y |-> position.y - 1]
    [] direction = "down"  -> [x |-> position.x, y |-> position.y - 1]
    [] direction = "left"  -> [x |-> position.x - 1, y |-> position.y]
    [] direction = "right" -> [x |-> position.x + 1, y |-> position.y]

\* movePosition with the cases of "left" and "right" exchanged.
movePosition_Flipped(position, direction) ==
  CASE direction = "up"    -> [x |-> position.x, y |-> position.y - 1]
    [] direction = "down"  -> [x |-> position.x, y |-> position.y + 1]
    [] direction = "left"  -> [x |-> position.x + 1, y |-> position.y]
    [] direction = "right" -> [x |-> position.x - 1, y |-> position.y]

\* Helper that transforms a position by 1 point in a direction.
movePosition(position, direction) ==
  CASE direction = "up"    -> [x |-> position.x, y |-> position.y - 1]
    [] direction = "down"  -> [x |-> position.x, y |-> position.y + 1]
    [] direction = "left"  -> [x |-> position.x - 1, y |-> position.y]
    [] direction = "right" -> [x |-> position.x + 1, y |-> position.y]

\* Constructors.  A composite piece is built from its topLeft; its squares
\* array is a function of the constructor argument (see squares below).
Square(topLeft, id) == [kind |-> "Square", topLeft |-> topLeft, id |-> id]
VerticalRect(topLeft, id) == [kind |-> "VerticalRect", topLeft |-> topLeft, id |-> id]
HorizontalRect(topLeft, id) == [kind |-> "HorizontalRect", topLeft |-> topLeft, id |-> id]
SunSquare(topLeft, id) == [kind |-> "SunSquare", topLeft |-> topLeft, id |-> id]

\* The private `squares` field of a piece: the unit Squares (ID -1) the
\* constructor creates, in array order.  A Square is its own single cell.
squares(piece) ==
  LET t == piece.topLeft IN
  CASE piece.kind = "Square" -> <<Square(t, -1)>>
    [] piece.kind = "VerticalRect" ->
         <<Square(t, -1), Square([x |-> t.x, y |-> t.y + 1], -1)>>
    [] piece.kind = "HorizontalRect" ->
         <<Square(t, -1), Square([x |-> t.x + 1, y |-> t.y], -1)>>
    [] piece.kind = "SunSquare" ->
         <<Square(t, -1), Square([x |-> t.x + 1, y |-> t.y], -1),
           Square([x |-> t.x, y |-> t.y + 1], -1),
           Square([x |-> t.x + 1, y |-> t.y + 1], -1)>>

getID(piece) == piece.id

getDimensions(piece) ==
  CASE piece.kind = "Square"         -> [width |-> 1, height |-> 1]
    [] piece.kind = "VerticalRect"   -> [width |-> 1, height |-> 2]
    [] piece.kind = "HorizontalRect" -> [width |-> 2, height |-> 1]
    [] piece.kind = "SunSquare"      -> [width |-> 2, height |-> 2]

getTopLeft(piece) ==
  IF piece.kind = "Square" THEN piece.topLeft ELSE squares(piece)[1].topLeft

\* Square.canMove with "right" tested by <= instead of <.
SquareCanMove_RightOffByOne(square, direction) ==
  CASE direction = "up"    -> square.topLeft.y > 0
    [] direction = "down"  -> square.topLeft.y < GRID_HEIGHT - 1
    [] direction = "left"  -> square.topLeft.x > 0
    [] direction = "right" -> square.topLeft.x <= GRID_WIDTH - 1

\* Square.canMove with "up" tested by >= instead of >.
SquareCanMove_UpOffByOne(square, direction) ==
  CASE direction = "up"    -> square.topLeft.y >= 0
    [] direction = "down"  -> square.topLeft.y < GRID_HEIGHT - 1
    [] direction = "left"  -> square.topLeft.x > 0
    [] direction = "right" -> square.topLeft.x < GRID_WIDTH - 1

\* Square.canMove with "down" tested by <= instead of <.
SquareCanMove_OffByOne(square, direction) ==
  CASE direction = "up"    -> square.topLeft.y > 0
    [] direction = "down"  -> square.topLeft.y <= GRID_HEIGHT - 1
    [] direction = "left"  -> square.topLeft.x > 0
    [] direction = "right" -> square.topLeft.x < GRID_WIDTH - 1

\* Square.canMove: the bounds check of one unit cell.
SquareCanMove(square, direction) ==
  CASE direction = "up"    -> square.topLeft.y > 0
    [] direction = "down"  -> square.topLeft.y < GRID_HEIGHT - 1
    [] direction = "left"  -> square.topLeft.x > 0
    [] direction = "right" -> square.topLeft.x < GRID_WIDTH - 1

\* canMove of every class: a Square checks itself, a composite checks
\* squares.every(square => square.canMove(direction)).
canMove(piece, direction) ==
  \A k \in 1..Len(squares(piece)) : SquareCanMove(squares(piece)[k], direction)

\* move with SunSquare.move constructing a Square.
move_SunBecomesSquare(piece, direction) ==
  CASE piece.kind = "Square" ->
         Square(movePosition(piece.topLeft, direction), piece.id)
    [] piece.kind = "VerticalRect" ->
         VerticalRect(movePosition(getTopLeft(piece), direction), piece.id)
    [] piece.kind = "HorizontalRect" ->
         HorizontalRect(movePosition(getTopLeft(piece), direction), piece.id)
    [] piece.kind = "SunSquare" ->
         Square(movePosition(getTopLeft(piece), direction), piece.id)

\* move of every class: a new piece of the same class and ID at the
\* moved top-left.
move(piece, direction) ==
  CASE piece.kind = "Square" ->
         Square(movePosition(piece.topLeft, direction), piece.id)
    [] piece.kind = "VerticalRect" ->
         VerticalRect(movePosition(getTopLeft(piece), direction), piece.id)
    [] piece.kind = "HorizontalRect" ->
         HorizontalRect(movePosition(getTopLeft(piece), direction), piece.id)
    [] piece.kind = "SunSquare" ->
         SunSquare(movePosition(getTopLeft(piece), direction), piece.id)

\* JSON.stringify({x, y}): the text {"x":<x>,"y":<y>} as its token sequence.
JSONstringify(position) == <<"{\"x\":", position.x, ",\"y\":", position.y, "}">>

\* getCoveredArea with width and height exchanged in the loop bounds.
getCoveredArea_Transposed(piece) ==
  LET t == getTopLeft(piece)
      dim == getDimensions(piece)
  IN  { JSONstringify([x |-> t.x + i, y |-> t.y + j]) :
          i \in 0..(dim.height - 1), j \in 0..(dim.width - 1) }

\* All positions covered by a piece, stringified.
getCoveredArea(piece) ==
  LET t == getTopLeft(piece)
      dim == getDimensions(piece)
  IN  { JSONstringify([x |-> t.x + i, y |-> t.y + j]) :
          i \in 0..(dim.width - 1), j \in 0..(dim.height - 1) }

\* areasOverlap with size > 1 instead of size > 0.
areasOverlap_MoreThanOne(area1, area2) ==
  Cardinality({point \in area1 : point \in area2}) > 1

areasOverlap(area1, area2) ==
  Cardinality({point \in area1 : point \in area2}) > 0

intersects(piece, other) ==
  areasOverlap(getCoveredArea(piece), getCoveredArea(other))

(***************************************************************************)
(* App.tsx                                                                 *)
(***************************************************************************)
SUN_ID == 1

initialPieces ==
  << VerticalRect([x |-> 0, y |-> 0], 0),
     SunSquare([x |-> 1, y |-> 0], SUN_ID),
     VerticalRect([x |-> 3, y |-> 0], 2),
     HorizontalRect([x |-> 1, y |-> 2], 3),
     VerticalRect([x |-> 0, y |-> 3], 4),
     Square([x |-> 1, y |-> 3], 5),
     Square([x |-> 2, y |-> 3], 6),
     VerticalRect([x |-> 3, y |-> 3], 7),
     Square([x |-> 1, y |-> 4], 8),
     Square([x |-> 2, y |-> 4], 9) >>

\* initialMap.set(piece.getID(), piece) for each initial piece, in order:
\* a later piece with the same ID would replace an earlier one.
initializePieces ==
  LET ids == { getID(initialPieces[k]) : k \in 1..Len(initialPieces) }
      lastIndex(id) ==
        CHOOSE k \in 1..Len(initialPieces) :
          /\ getID(initialPieces[k]) = id
          /\ \A m \in 1..Len(initialPieces) :
               getID(initialPieces[m]) = id => m <= k
  IN  [ id \in ids |-> initialPieces[lastIndex(id)] ]

\* The value of a missing map entry.
undefined == [kind |-> "undefined"]

\* Map.get(pieceID).
mapGet(board, pieceID) ==
  IF pieceID \in DOMAIN board THEN board[pieceID] ELSE undefined

\* The message of the Error findPiece throws.
CouldNotFindPiece == "Could not find piece with ID"

\* findPiece without the test piece == null.
findPieceThrows_Never(board, pieceID) == FALSE

\* findPiece: the test piece == null, on which it throws.
findPieceThrows(board, pieceID) == mapGet(board, pieceID) = undefined

\* findPiece: the piece it returns when it does not throw.
findPiece(board, pieceID) == mapGet(board, pieceID)

\* checkWinCondition comparing y with the bottom row GRID_HEIGHT - 1.
checkWinCondition_BottomRow(pieceID, piece, direction) ==
  IF direction = "down" /\ pieceID = SUN_ID
    THEN getTopLeft(piece).x = 1 /\ getTopLeft(piece).y = GRID_HEIGHT - 1
    ELSE FALSE

\* checkWinCondition without the test pieceID === SUN_ID.
checkWinCondition_AnyPiece(pieceID, piece, direction) ==
  IF direction = "down"
    THEN getTopLeft(piece).x = 1 /\ getTopLeft(piece).y = GRID_HEIGHT - 2
    ELSE FALSE

checkWinCondition(pieceID, piece, direction) ==
  IF direction = "down" /\ pieceID = SUN_ID
    THEN getTopLeft(piece).x = 1 /\ getTopLeft(piece).y = GRID_HEIGHT - 2
    ELSE FALSE

\* canMoveWithOthers without the loop over the other pieces.
canMoveWithOthers_NoCollision(board, pieceID, direction) ==
  LET piece == findPiece(board, pieceID) IN
  IF checkWinCondition(pieceID, piece, direction) THEN TRUE
  ELSE canMove(piece, direction)

\* canMoveWithOthers without the test otherPieceID !== movedPieceID.
canMoveWithOthers_SelfBlocks(board, pieceID, direction) ==
  LET piece == findPiece(board, pieceID) IN
  IF checkWinCondition(pieceID, piece, direction) THEN TRUE
  ELSE IF ~canMove(piece, direction) THEN FALSE
  ELSE LET movedPiece == move(piece, direction)
       IN  \A otherPieceID \in DOMAIN board :
             ~intersects(board[otherPieceID], movedPiece)

canMoveWithOthers(board, pieceID, direction) ==
  LET piece == findPiece(board, pieceID) IN
  IF checkWinCondition(pieceID, piece, direction) THEN TRUE
  ELSE IF ~canMove(piece, direction) THEN FALSE
  ELSE LET movedPiece == move(piece, direction)
           movedPieceID == getID(movedPiece)
       IN  \A otherPieceID \in DOMAIN board :
             ~(otherPieceID # movedPieceID
               /\ intersects(board[otherPieceID], movedPiece))

\* The updater passed to setPieces: a new map with the entry keyed by the
\* moved piece's ID replaced.
updatedPieces(oldPieces, movedPiece) ==
  [ otherPieceID \in DOMAIN oldPieces |->
      IF otherPieceID = getID(movedPiece) THEN movedPiece
      ELSE oldPieces[otherPieceID] ]

\* A call that ends by throwing: nothing after the throw is executed.
Throw(message) ==
  /\ thrown' = message
  /\ UNCHANGED <<pieces, selected, alerts, won>>

\* onMove(pieceID, direction): alert on a winning move, then replace the
\* moved piece in the board.  The handler itself does not validate the move.
\* `piece` is found in the pieces of the render that created the handler;
\* the updater given to setPieces works on the current state (updates are
\* applied in the order they were queued, so applying each one at once to
\* the state gives the board React computes).
onMove(pieceID, direction) ==
  LET piece == findPiece(rendered.pieces, pieceID) IN
  /\ lastOp' = "move"
  /\ moves' = moves + 1
  /\ IF findPieceThrows(rendered.pieces, pieceID) THEN Throw(CouldNotFindPiece)
     ELSE IF piece = undefined THEN Throw("TypeError")
     ELSE LET movedPiece == move(piece, direction) IN
          /\ alerts' = IF checkWinCondition(pieceID, piece, direction)
                         THEN alerts + 1 ELSE alerts
          /\ won' = (won \/ checkWinCondition(pieceID, piece, direction))
          /\ pieces' = updatedPieces(pieces, movedPiece)
          /\ thrown' = ""
          /\ UNCHANGED selected

\* A call of canMoveWithOthers throws when its findPiece does.
canMoveWithOthersThrows(board, pieceID, direction) ==
  findPieceThrows(board, pieceID)

\* Clicking a rendered piece: setSelected(id).
SelectPiece(id) ==
  /\ id \in DOMAIN rendered.pieces
  /\ selected' = id
  /\ lastOp' = "select"
  /\ thrown' = ""
  /\ UNCHANGED <<pieces, alerts, moves, won>>

\* Clicking an arrow of the selected piece.  PieceControls renders the
\* arrow of a direction only when canMove(direction) holds.
ClickArrow(direction) ==
  /\ rendered.selected \in DOMAIN rendered.pieces
  /\ canMoveWithOthers(rendered.pieces, rendered.selected, direction)
  /\ onMove(rendered.selected, direction)

\* The reset button without setPieces(initializePieces()).
ResetClick_KeepsBoard ==
  /\ selected' = -1
  /\ lastOp' = "reset"
  /\ thrown' = ""
  /\ won' = FALSE
  /\ UNCHANGED <<pieces, alerts, moves>>

\* The reset button: setPieces(initializePieces()); setSelected(-1).
ResetClick ==
  /\ pieces' = initializePieces
  /\ selected' = -1
  /\ lastOp' = "reset"
  /\ thrown' = ""
  /\ won' = FALSE
  /\ UNCHANGED <<alerts, moves>>

\* React renders App again after a handler has set state: the new closures
\* hold the new pieces and selected.
Rerender == rendered' = [pieces |-> pieces', selected |-> selected']

(***************************************************************************)
(* A solution of the puzzle: 113 single-cell moves <<pieceID, direction>>. *)
(* SolveSpec replays it through the handlers; its boards are therefore     *)
(* boards the program reaches from the initial layout.                     *)
(***************************************************************************)
Solution ==
  <<
    <<3, "left">>, <<6, "up">>, <<6, "right">>, <<3, "right">>, <<4, "up">>, <<8, "left">>,
    <<9, "left">>, <<7, "left">>, <<6, "down">>, <<3, "right">>, <<5, "up">>, <<6, "down">>,
    <<9, "up">>, <<8, "right">>, <<4, "down">>, <<5, "left">>, <<3, "left">>, <<2, "down">>,
    <<2, "down">>, <<1, "right">>, <<0, "right">>, <<5, "up">>, <<4, "up">>, <<5, "up">>,
    <<4, "up">>, <<8, "left">>, <<9, "left">>, <<7, "left">>, <<6, "left">>, <<2, "down">>,
    <<3, "right">>, <<6, "up">>, <<7, "up">>, <<8, "right">>, <<8, "right">>, <<7, "down">>,
    <<0, "down">>, <<5, "right">>, <<4, "up">>, <<9, "up">>, <<7, "left">>, <<0, "down">>,
    <<0, "down">>, <<9, "right">>, <<9, "up">>, <<3, "left">>, <<2, "up">>, <<3, "left">>,
    <<8, "right">>, <<6, "down">>, <<2, "left">>, <<8, "up">>, <<6, "right">>, <<2, "down">>,
    <<3, "right">>, <<3, "right">>, <<0, "up">>, <<4, "down">>, <<5, "left">>, <<9, "up">>,
    <<0, "up">>, <<2, "left">>, <<6, "left">>, <<8, "down">>, <<3, "down">>, <<1, "down">>,
    <<9, "right">>, <<5, "right">>, <<4, "up">>, <<7, "up">>, <<9, "right">>, <<5, "right">>,
    <<0, "up">>, <<2, "up">>, <<6, "left">>, <<6, "left">>, <<8, "left">>, <<8, "left">>,
    <<3, "down">>, <<1, "down">>, <<5, "down">>, <<5, "right">>, <<0, "right">>, <<2, "up">>,
    <<2, "up">>, <<1, "left">>, <<5, "down">>, <<5, "down">>, <<9, "down">>, <<9, "down">>,
    <<0, "right">>, <<2, "right">>, <<4, "right">>, <<7, "up">>, <<7, "up">>, <<1, "left">>,
    <<5, "left">>, <<5, "up">>, <<3, "up">>, <<8, "right">>, <<6, "right">>, <<8, "right">>,
    <<6, "right">>, <<1, "down">>, <<5, "left">>, <<5, "left">>, <<9, "left">>, <<9, "left">>,
    <<3, "up">>, <<6, "up">>, <<6, "right">>, <<1, "right">>, <<1, "down">>
  >>

\* The board Solution reaches after all its moves but the last, on which the
\* Sun stands over the exit (SolveSpec checks that it is that board).
ExitBoard ==
  [ id \in 0..9 |->
      CASE id = 0 -> VerticalRect([x |-> 3, y |-> 0], 0)
        [] id = 1 -> SunSquare([x |-> 1, y |-> 3], 1)
        [] id = 2 -> VerticalRect([x |-> 2, y |-> 0], 2)
        [] id = 3 -> HorizontalRect([x |-> 2, y |-> 2], 3)
        [] id = 4 -> VerticalRect([x |-> 1, y |-> 0], 4)
        [] id = 5 -> Square([x |-> 0, y |-> 2], 5)
        [] id = 6 -> Square([x |-> 3, y |-> 3], 6)
        [] id = 7 -> VerticalRect([x |-> 0, y |-> 0], 7)
        [] id = 8 -> Square([x |-> 3, y |-> 4], 8)
        [] id = 9 -> Square([x |-> 1, y |-> 2], 9) ]

(***************************************************************************)
(* Spec: the application as the user drives it.  A session is observed     *)
(* from the initial layout or from the exit board of Solution, for at most *)
(* MaxMoves moves.                                                         *)
(***************************************************************************)
Init ==
  /\ pieces \in {initializePieces, ExitBoard}
  /\ selected = -1
  /\ alerts = 0
  /\ lastOp = "init"
  /\ moves = 0
  /\ thrown = ""
  /\ won = FALSE
  /\ rendered = [pieces |-> pieces, selected |-> selected]

Select == (\E id \in DOMAIN pieces : SelectPiece(id)) /\ Rerender

Move ==
  /\ moves < MaxMoves
  /\ \E direction \in MoveDirection : ClickArrow(direction)
  /\ Rerender

Reset == ResetClick /\ Rerender

Next == Select \/ Move \/ Reset

Spec == Init /\ [][Next]_vars

(***************************************************************************)
(* SolveSpec: the user plays Solution from the initial layout, selecting   *)
(* the piece of the next move and clicking its arrow.                      *)
(***************************************************************************)
SolveInit ==
  /\ pieces = initializePieces
  /\ selected = -1
  /\ alerts = 0
  /\ lastOp = "init"
  /\ moves = 0
  /\ thrown = ""
  /\ won = FALSE
  /\ rendered = [pieces |-> pieces, selected |-> selected]

SolveSelect ==
  /\ moves < Len(Solution)
  /\ selected # Solution[moves + 1][1]
  /\ SelectPiece(Solution[moves + 1][1])
  /\ Rerender

SolveMove ==
  /\ moves < Len(Solution)
  /\ selected = Solution[moves + 1][1]
  /\ ClickArrow(Solution[moves + 1][2])
  /\ Rerender

SolveNext == SolveSelect \/ SolveMove

SolveSpec == SolveInit /\ [][SolveNext]_vars

(***************************************************************************)
(* DriverSpec: onMove and canMoveWithOthers called as functions, with any  *)
(* piece of the board or the null ID -1 and any direction, without the     *)
(* arrow's canMove test in front of onMove.                                *)
(***************************************************************************)
CallOnMove ==
  /\ moves < MaxCalls
  /\ \E pieceID \in DOMAIN pieces \cup {-1}, direction \in MoveDirection :
       onMove(pieceID, direction)
  /\ Rerender

\* A call canMoveWithOthers(pieceID, direction): it changes no state, and
\* either returns or throws.
CanMoveCall(pieceID, direction) ==
  /\ thrown' = IF canMoveWithOthersThrows(rendered.pieces, pieceID, direction)
                 THEN CouldNotFindPiece ELSE ""
  /\ lastOp' = "canMove"
  /\ UNCHANGED <<pieces, selected, alerts, moves, won, rendered>>

CallCanMove ==
  \E pieceID \in DOMAIN pieces \cup {-1}, direction \in MoveDirection :
    CanMoveCall(pieceID, direction)

DriverNext == CallOnMove \/ CallCanMove \/ Reset

DriverSpec == SolveInit /\ [][DriverNext]_vars

(***************************************************************************)
(* PieceSpec: the piece classes on their own.  Two pieces of any class     *)
(* stand at any top-left of the grid (overhanging the right or bottom edge *)
(* or lying on one another included); a step applies move to one of them   *)
(* in a direction its canMove allows.                                      *)
(***************************************************************************)
PieceKinds == {"Square", "VerticalRect", "HorizontalRect", "SunSquare"}

\* new <kind>(topLeft, id)
NewPiece(kind, topLeft, id) ==
  CASE kind = "Square"         -> Square(topLeft, id)
    [] kind = "VerticalRect"   -> VerticalRect(topLeft, id)
    [] kind = "HorizontalRect" -> HorizontalRect(topLeft, id)
    [] kind = "SunSquare"      -> SunSquare(topLeft, id)

PiecePositions ==
  { [x |-> px, y |-> py] : px \in 0..(GRID_WIDTH - 1), py \in 0..(GRID_HEIGHT - 1) }

PieceInit ==
  /\ \E ka \in PieceKinds, kb \in PieceKinds, ta \in PiecePositions, tb \in PiecePositions :
       pieces = [ id \in {0, 1} |->
                    IF id = 0 THEN NewPiece(ka, ta, 0) ELSE NewPiece(kb, tb, 1) ]
  /\ selected = -1
  /\ alerts = 0
  /\ lastOp = "init"
  /\ moves = 0
  /\ thrown = ""
  /\ won = FALSE
  /\ rendered = [pieces |-> pieces, selected |-> selected]

PieceMove ==
  /\ \E id \in DOMAIN pieces, direction \in MoveDirection :
       /\ canMove(pieces[id], direction)
       /\ pieces' = [pieces EXCEPT ![id] = move(pieces[id], direction)]
  /\ lastOp' = "piece.move"
  /\ UNCHANGED <<selected, alerts, moves, thrown, won>>
  /\ Rerender

PieceNext == PieceMove

PieceSpec == PieceInit /\ [][PieceNext]_vars

(***************************************************************************)
(* StaleSpec: the handlers of one render may run more than once before     *)
(* React renders again.  Each handler reads the pieces and selected of the *)
(* render that created it; Render brings the closures up to date.          *)
(***************************************************************************)
StaleSelect == (\E id \in DOMAIN pieces : SelectPiece(id)) /\ UNCHANGED rendered

StaleMove ==
  /\ moves < MaxHandled
  /\ \E direction \in MoveDirection : ClickArrow(direction)
  /\ UNCHANGED rendered

StaleReset == ResetClick /\ UNCHANGED rendered

Render ==
  /\ rendered # [pieces |-> pieces, selected |-> selected]
  /\ rendered' = [pieces |-> pieces, selected |-> selected]
  /\ UNCHANGED <<pieces, selected, alerts, lastOp, moves, thrown, won>>

StaleNext == StaleSelect \/ StaleMove \/ StaleReset \/ Render

StaleSpec == Init /\ [][StaleNext]_vars

(***************************************************************************)
(* Properties.  They speak of cells and shapes directly, not through the   *)
(* operators of the model above.                                           *)
(***************************************************************************)
ShapeWidth(kind) == IF kind \in {"HorizontalRect", "SunSquare"} THEN 2 ELSE 1
ShapeHeight(kind) == IF kind \in {"VerticalRect", "SunSquare"} THEN 2 ELSE 1

\* The occupied-cell set of a piece of the given shape at the given top-left.
CellsAt(kind, topLeft) ==
  { <<topLeft.x + i, topLeft.y + j>> :
      i \in 0..(ShapeWidth(kind) - 1), j \in 0..(ShapeHeight(kind) - 1) }

OccupiedCells(piece) == CellsAt(piece.kind, piece.topLeft)

\* The grid [0,4) x [0,5).
Grid == (0..3) \X (0..4)

\* One step in a direction.
Shift(topLeft, direction) ==
  [x |-> topLeft.x + (IF direction = "right" THEN 1 ELSE IF direction = "left" THEN -1 ELSE 0),
   y |-> topLeft.y + (IF direction = "down" THEN 1 ELSE IF direction = "up" THEN -1 ELSE 0)]

SunOverExit == pieces[1].topLeft = [x |-> 1, y |-> 3]

\* C1: on every board reached by permitted moves and resets, no two distinct
\* pieces have occupied-cell sets that share a cell.
C1_NoOverlap ==
  \A a \in DOMAIN pieces, b \in DOMAIN pieces :
    a # b => OccupiedCells(pieces[a]) \cap OccupiedCells(pieces[b]) = {}

\* A board two or more accepted moves away from where the session began.
C1_Witness ==
  /\ lastOp = "move"
  /\ moves >= 2
  /\ pieces # initializePieces
  /\ pieces # ExitBoard

\* C2 as claimed: at every rest state every piece's occupied cells lie within
\* the grid [0,4) x [0,5).
C2_AllWithinGrid ==
  \A id \in DOMAIN pieces : OccupiedCells(pieces[id]) \subseteq Grid

\* C2 as amended: every piece other than the Sun lies within the grid; the
\* Sun lies within the grid as long as no winning move has been made, and
\* within [0,4) x [0,6) afterwards (it overhangs the bottom edge by at most
\* one row, through the exit).
C2_WithinGridExceptSunAfterWin ==
  /\ \A id \in DOMAIN pieces \ {1} : OccupiedCells(pieces[id]) \subseteq Grid
  /\ alerts = 0 => OccupiedCells(pieces[1]) \subseteq Grid
  /\ OccupiedCells(pieces[1]) \subseteq (0..3) \X (0..5)

\* The board right after a winning move: the Sun overhangs the bottom edge.
C2_Witness ==
  /\ alerts > 0
  /\ lastOp = "move"
  /\ ~(OccupiedCells(pieces[1]) \subseteq Grid)

\* C3: when canMoveWithOthers(pieceID, direction) is false on the current
\* board, a call of onMove(pieceID, direction) leaves the board unchanged.
C3_IllegalMoveIsNoOp ==
  [][ \A pieceID \in DOMAIN pieces, direction \in MoveDirection :
        (~canMoveWithOthers(pieces, pieceID, direction) /\ onMove(pieceID, direction))
          => pieces' = pieces ]_vars

\* C4: whenever the Sun's top-left is (1,3), canMoveWithOthers(SUN_ID, "down")
\* is true although the Sun's own canMove("down") is false, and the move
\* onMove(SUN_ID, "down") signals the win and puts the Sun at (1,4).
C4_ExitMove ==
  /\ [](SunOverExit =>
          /\ canMoveWithOthers(pieces, 1, "down")
          /\ ~canMove(pieces[1], "down"))
  /\ [][ (SunOverExit /\ onMove(1, "down")) =>
           /\ alerts' = alerts + 1
           /\ pieces'[1].topLeft = [x |-> 1, y |-> 4] ]_vars

\* The board after the first winning move, the Sun at (1,4).
C4_Witness ==
  /\ alerts = 1
  /\ lastOp = "move"
  /\ selected = 1
  /\ pieces[1].topLeft = [x |-> 1, y |-> 4]

\* C5: a move signals the win if and only if the moved piece is the Sun
\* (identity 1), the direction is "down" and the Sun's top-left before the
\* move is (1,3); nothing but a move signals a win.
C5_WinSignalIff ==
  [][ /\ \A pieceID \in DOMAIN pieces, direction \in MoveDirection :
           onMove(pieceID, direction) =>
             ((alerts' = alerts + 1) <=>
                (pieceID = 1 /\ direction = "down" /\ SunOverExit))
      /\ alerts' \in {alerts, alerts + 1}
      /\ alerts' # alerts => lastOp' = "move" ]_vars

\* A session with one winning move and at least one move that did not win.
C5_Witness ==
  /\ alerts = 1
  /\ moves > alerts

\* C6: the puzzle is solvable.  Played from the initial layout, every move of
\* Solution is permitted by canMoveWithOthers on the board it is made on, the
\* moves before the last bring the Sun to (1,3), and the last move wins.
C6_SolutionPlays ==
  /\ moves < Len(Solution) =>
       canMoveWithOthers(pieces, Solution[moves + 1][1], Solution[moves + 1][2])
  /\ moves = Len(Solution) - 1 => (pieces = ExitBoard /\ SunOverExit /\ alerts = 0)
  /\ moves = Len(Solution) =>
       (alerts = 1 /\ Solution[Len(Solution)] = <<1, "down">>)

\* The end of the solution: all moves played and the win signalled.
C6_Witness ==
  /\ moves = Len(Solution)
  /\ alerts = 1
  /\ lastOp = "move"

\* C7: for every piece of a reachable board and every direction, canMove is
\* false whenever the footprint translated one step in that direction
\* includes a cell outside [0,4) x [0,5).
C7_CanMoveFalseWhenLeavingGrid ==
  \A id \in DOMAIN pieces, direction \in MoveDirection :
    ~(CellsAt(pieces[id].kind, Shift(pieces[id].topLeft, direction)) \subseteq Grid)
      => ~canMove(pieces[id], direction)

\* The pairs <<piece, direction>> that canMoveWithOthers permits on a board.
PermittedMoves(board) ==
  { m \in (DOMAIN board) \X MoveDirection : canMoveWithOthers(board, m[1], m[2]) }

\* C8: reset restores exactly the ten-piece initial layout from any board,
\* and the moves permitted right after it are those of a fresh board.
C8_ResetRestores ==
  [][ lastOp' = "reset" =>
        /\ pieces' = initializePieces
        /\ PermittedMoves(pieces') =
             { <<0, "down">>, <<2, "down">>, <<3, "left">>, <<3, "right">>,
               <<4, "up">>, <<7, "up">> } ]_vars

\* A reset made after a win.
C8_Witness ==
  /\ lastOp = "reset"
  /\ alerts > 0
  /\ pieces = initializePieces

\* C9: an accepted move of piece p in direction d replaces exactly the entry
\* of p, by the same identity and shape one step further in d; every other
\* entry is unchanged.
C9_MoveReplacesOneEntry ==
  [][ \A direction \in MoveDirection :
        ClickArrow(direction) =>
          /\ DOMAIN pieces' = DOMAIN pieces
          /\ \A other \in DOMAIN pieces \ {selected} : pieces'[other] = pieces[other]
          /\ pieces'[selected].id = pieces[selected].id
          /\ pieces'[selected].kind = pieces[selected].kind
          /\ pieces'[selected].topLeft = Shift(pieces[selected].topLeft, direction) ]_vars

\* The board after the first accepted move of a session.
C9_Witness ==
  /\ lastOp = "move"
  /\ moves = 1
  /\ pieces # initializePieces
  /\ pieces # ExitBoard

\* The shape each identity has in the initial layout.
InitialShape(id) ==
  CASE id \in {0, 2, 4, 7}    -> "VerticalRect"
    [] id = 1                 -> "SunSquare"
    [] id = 3                 -> "HorizontalRect"
    [] id \in {5, 6, 8, 9}    -> "Square"

\* C10: the piece identities are exactly 0..9, each identity keeps the shape
\* of the initial layout, and exactly one piece, the 2x2 SunSquare of
\* identity 1, carries the Sun identity.
C10_IdentitiesAndShapes ==
  /\ DOMAIN pieces = 0..9
  /\ \A id \in DOMAIN pieces :
       pieces[id].id = id /\ pieces[id].kind = InitialShape(id)
  /\ { id \in DOMAIN pieces : pieces[id].kind = "SunSquare" } = {1}
  /\ { id \in DOMAIN pieces : pieces[id].id = SUN_ID } = {1}

\* A board on which the Sun has been moved sideways after a win.
C10_Witness ==
  /\ lastOp = "move"
  /\ pieces[1].topLeft = [x |-> 0, y |-> 4]

\* C11: a call of canMoveWithOthers or onMove with a piece identity that is
\* not a key of the board fails with the 'could not find piece' error and
\* leaves the board (and the alert count) unchanged.
C11_UnknownPieceThrows ==
  [][ \A pieceID \in (DOMAIN pieces \cup {-1}), direction \in MoveDirection :
        pieceID \notin DOMAIN pieces =>
          /\ onMove(pieceID, direction) =>
               (thrown' = "Could not find piece with ID"
                  /\ pieces' = pieces /\ alerts' = alerts /\ selected' = selected)
          /\ CanMoveCall(pieceID, direction) =>
               (thrown' = "Could not find piece with ID" /\ pieces' = pieces) ]_vars

\* A call of onMove has thrown on a board that earlier calls had changed.
C11_Witness ==
  /\ thrown = "Could not find piece with ID"
  /\ lastOp = "move"
  /\ moves >= 2
  /\ pieces # initializePieces

\* The opposite direction.
Opposite(direction) ==
  CASE direction = "up" -> "down" [] direction = "down" -> "up"
    [] direction = "left" -> "right" [] direction = "right" -> "left"

\* C12: for every shape, every in-grid top-left and every direction d whose
\* step stays in bounds, piece.move(d).move(opposite(d)) equals the piece in
\* shape, identity and top-left.
C12_MoveRoundTrip ==
  \A id \in DOMAIN pieces, direction \in MoveDirection :
    ( /\ OccupiedCells(pieces[id]) \subseteq Grid
      /\ CellsAt(pieces[id].kind, Shift(pieces[id].topLeft, direction)) \subseteq Grid )
    => LET back == move(move(pieces[id], direction), Opposite(direction)) IN
       /\ back.kind = pieces[id].kind
       /\ back.id = pieces[id].id
       /\ back.topLeft = pieces[id].topLeft
       /\ move(pieces[id], direction).topLeft # pieces[id].topLeft

\* A VerticalRect that has been moved and stands inside the grid with room
\* to move down and back.
C12_Witness ==
  /\ lastOp = "piece.move"
  /\ pieces[0].kind = "VerticalRect"
  /\ pieces[0].topLeft = [x |-> 2, y |-> 1]

\* C13: canMoveWithOthers is true exactly when the win exit applies (Sun,
\* down, top-left (1,3)) or piece.canMove(direction) is true and the footprint
\* translated one step shares no cell with any other piece; the cells of the
\* moving piece itself never block it.
C13_CanMoveWithOthersIff ==
  \A id \in DOMAIN pieces, direction \in MoveDirection :
    canMoveWithOthers(pieces, id, direction) <=>
      \/ (id = 1 /\ direction = "down" /\ SunOverExit)
      \/ /\ canMove(pieces[id], direction)
         /\ \A other \in DOMAIN pieces \ {id} :
              CellsAt(pieces[id].kind, Shift(pieces[id].topLeft, direction))
                \cap OccupiedCells(pieces[other]) = {}

\* A board reached by a move on which one piece may move onto a cell it
\* holds itself while another piece is stopped by exactly one cell of a
\* neighbour, inside the grid.
C13_Witness ==
  /\ lastOp = "move"
  /\ \E id \in DOMAIN pieces, direction \in MoveDirection :
       /\ canMoveWithOthers(pieces, id, direction)
       /\ CellsAt(pieces[id].kind, Shift(pieces[id].topLeft, direction))
            \cap OccupiedCells(pieces[id]) # {}
  /\ \E id \in DOMAIN pieces, direction \in MoveDirection, other \in DOMAIN pieces :
       /\ other # id
       /\ canMove(pieces[id], direction)
       /\ ~canMoveWithOthers(pieces, id, direction)
       /\ Cardinality(CellsAt(pieces[id].kind, Shift(pieces[id].topLeft, direction))
            \cap OccupiedCells(pieces[other])) = 1

\* C14: for every shape placed with its whole footprint inside the grid and
\* every direction, canMove is true if and only if every cell of the footprint
\* translated one step lies in the grid; this is the AND of the unit cells'
\* checks (the Sun at (1,0) cannot move up but can move down).
C14_CanMoveIffStaysInGrid ==
  \A id \in DOMAIN pieces, direction \in MoveDirection :
    LET p == pieces[id] IN
    /\ OccupiedCells(p) \subseteq Grid =>
         /\ canMove(p, direction) <=>
              (CellsAt(p.kind, Shift(p.topLeft, direction)) \subseteq Grid)
         /\ canMove(p, direction) <=>
              \A cell \in OccupiedCells(p) :
                SquareCanMove(Square([x |-> cell[1], y |-> cell[2]], -1), direction)
    /\ (p.kind = "SunSquare" /\ p.topLeft = [x |-> 1, y |-> 0]) =>
         (~canMove(p, "up") /\ canMove(p, "down"))

\* A Sun that has been moved to (1,0).
C14_Witness ==
  /\ lastOp = "piece.move"
  /\ pieces[0].kind = "SunSquare"
  /\ pieces[0].topLeft = [x |-> 1, y |-> 0]

\* C15: once a winning move has been reported, no later move before a reset
\* reports a win again.
C15_WinReportedOnce ==
  [][ (won /\ lastOp' = "move") => alerts' = alerts ]_vars

\* C16: the piece value onMove writes is the one-step translation of that
\* piece's position in the board being updated, and no board violates
\* non-overlap, also when handlers of one render run more than once before
\* the next render.
C16_MoveFromCurrentBoard ==
  /\ [][ \A direction \in MoveDirection :
           ClickArrow(direction) =>
             pieces'[rendered.selected].topLeft =
               Shift(pieces[rendered.selected].topLeft, direction) ]_vars
  /\ [](\A a \in DOMAIN pieces, b \in DOMAIN pieces :
          a # b => OccupiedCells(pieces[a]) \cap OccupiedCells(pieces[b]) = {})

\* The bounding boxes of two pieces overlap.
BoxesOverlap(a, b) ==
  /\ a.topLeft.x < b.topLeft.x + ShapeWidth(b.kind)
  /\ b.topLeft.x < a.topLeft.x + ShapeWidth(a.kind)
  /\ a.topLeft.y < b.topLeft.y + ShapeHeight(b.kind)
  /\ b.topLeft.y < a.topLeft.y + ShapeHeight(a.kind)

\* C17: a.intersects(b) is true if and only if the occupied-cell sets of a
\* and b share a cell; it is symmetric and coincides with bounding-box
\* overlap.
C17_IntersectsIsCellOverlap ==
  \A a \in DOMAIN pieces, b \in DOMAIN pieces :
    /\ intersects(pieces[a], pieces[b]) <=>
         (OccupiedCells(pieces[a]) \cap OccupiedCells(pieces[b]) # {})
    /\ intersects(pieces[a], pieces[b]) <=> intersects(pieces[b], pieces[a])
    /\ intersects(pieces[a], pieces[b]) <=> BoxesOverlap(pieces[a], pieces[b])

\* A VerticalRect moved so that it shares exactly one cell with a
\* HorizontalRect.
C17_Witness ==
  /\ lastOp = "piece.move"
  /\ pieces[0].kind = "VerticalRect"
  /\ pieces[1].kind = "HorizontalRect"
  /\ Cardinality(OccupiedCells(pieces[0]) \cap OccupiedCells(pieces[1])) = 1

\* C18: right after an accepted move of piece p in direction d,
\* canMoveWithOthers(p, opposite(d)) is true and that move restores the
\* previous board.
C18_MoveIsReversible ==
  [][ \A direction \in MoveDirection :
        ClickArrow(direction) =>
          /\ canMoveWithOthers(pieces', selected, Opposite(direction))
          /\ updatedPieces(pieces', move(pieces'[selected], Opposite(direction)))
               = pieces ]_vars

\* C19: every piece other than the Sun lies wholly inside the grid, the
\* Sun's top-left satisfies 0 <= x <= 2 and 0 <= y <= 4, and it has y = 4 only
\* on boards reached through a winning move.
C19_SunAtMostOneRowOut ==
  /\ \A id \in DOMAIN pieces \ {1} :
       \A cell \in OccupiedCells(pieces[id]) :
         0 <= cell[1] /\ cell[1] < 4 /\ 0 <= cell[2] /\ cell[2] < 5
  /\ 0 <= pieces[1].topLeft.x /\ pieces[1].topLeft.x <= 2
  /\ 0 <= pieces[1].topLeft.y /\ pieces[1].topLeft.y <= 4
  /\ pieces[1].topLeft.y = 4 => won

\* The Sun in row 4 and column 0, moved there sideways after the win.
C19_Witness ==
  /\ won
  /\ alerts = 1
  /\ pieces[1].topLeft.y = 4
  /\ pieces[1].topLeft.x = 0
====
